---- MODULE Spec2Model ----
(***************************************************************************)
(* Query routing and query resolution of the student-portfolio chatbot:    *)
(* the Flask handler get_response (app/application.py), the RAG chain      *)
(* (app/components/retriever.py) and the DataQueryEngine                   *)
(* (app/components/data_query_engine.py).                                  *)
(*                                                                         *)
(* A Python str is a sequence of one-character strings.  A Python call     *)
(* returns an outcome: [ok |-> TRUE, val |-> v] or, when it raises,        *)
(* [ok |-> FALSE, exc |-> <exception class>].                              *)
(***************************************************************************)
EXTENDS Integers, Sequences, FiniteSets, TLC

VARIABLES
    rag_chain,          \* application.py module global: "ok" or "None"
    data_query_engine,  \* application.py module global: "ok" or "None"
    router_chain,       \* application.py module global: "ok" or "None"
    general_chain,      \* application.py module global: "ok" or "None"
    df,                 \* DataQueryEngine.df: the flattened table, a sequence of rows
    tie_rev,            \* how this build's sort_values orders equal aggregate values
    req,                \* one record per request being served
    history             \* the first finished query_data call, kept for comparison with later ones

vars == <<rag_chain, data_query_engine, router_chain, general_chain, df, tie_rev, req,
          history>>

(***************************************************************************)
(* Bounds of the model.                                                    *)
(***************************************************************************)
MaxFrags == 2       \* fragments concatenated into one classifier response
MaxStudents == 2    \* student objects in the source JSON document

(***************************************************************************)
(* Python str primitives.                                                  *)
(***************************************************************************)
LowerChars == <<"a","b","c","d","e","f","g","h","i","j","k","l","m",
                "n","o","p","q","r","s","t","u","v","w","x","y","z">>
UpperChars == <<"A","B","C","D","E","F","G","H","I","J","K","L","M",
                "N","O","P","Q","R","S","T","U","V","W","X","Y","Z">>
OtherChars == <<" ","0","1","2","3","4","5","6","7","8","9">>

\* Code-point order of the characters used: ' ' < digits < 'A'..'Z' < '_' < 'a'..'z'.
CodeOrder == OtherChars \o UpperChars \o <<"_">> \o LowerChars

IndexOf(c, seq) == CHOOSE i \in 1..Len(seq) : seq[i] = c

Ord(c) == IndexOf(c, CodeOrder)

IsLowerChar(c) == \E i \in 1..26 : LowerChars[i] = c
IsUpperChar(c) == \E i \in 1..26 : UpperChars[i] = c
IsCased(c) == IsLowerChar(c) \/ IsUpperChar(c)
IsSpace(c) == c = " "

LowerChar(c) == IF IsUpperChar(c) THEN LowerChars[IndexOf(c, UpperChars)] ELSE c
UpperChar(c) == IF IsLowerChar(c) THEN UpperChars[IndexOf(c, LowerChars)] ELSE c

\* str.lower()
Lower(s) == [i \in 1..Len(s) |-> LowerChar(s[i])]

\* str.title(): a cased character is upper-cased when it follows an uncased
\* character (or starts the string) and lower-cased when it follows a cased one.
Title(s) ==
    [i \in 1..Len(s) |->
        IF i > 1 /\ IsCased(s[i-1]) THEN LowerChar(s[i]) ELSE UpperChar(s[i])]

\* str.strip(): leading and trailing whitespace removed.
Strip(s) ==
    LET nonsp == {i \in 1..Len(s) : ~IsSpace(s[i])}
    IN  IF nonsp = {} THEN <<>>
        ELSE LET lo == CHOOSE i \in nonsp : \A j \in nonsp : i <= j
                 hi == CHOOSE i \in nonsp : \A j \in nonsp : j <= i
             IN  SubSeq(s, lo, hi)

\* Python's `sub in s` for str operands.
StrIn(sub, s) ==
    \E i \in 0..(Len(s) - Len(sub)) : SubSeq(s, i + 1, i + Len(sub)) = sub

\* Python's s < t for str operands (lexicographic by code point).
StrLess(s, t) ==
    \E i \in 1..(Len(t)) :
        /\ i <= Len(s) + 1
        /\ SubSeq(s, 1, i - 1) = SubSeq(t, 1, i - 1)
        /\ \/ i = Len(s) + 1
           \/ (i <= Len(s) /\ Ord(s[i]) < Ord(t[i]))

\* str(n) for a non-negative int below 100.
Digits == <<"0","1","2","3","4","5","6","7","8","9">>
IntStr(n) ==
    IF n < 10 THEN <<Digits[n + 1]>>
    ELSE <<Digits[(n \div 10) + 1], Digits[(n % 10) + 1]>>

(***************************************************************************)
(* Outcomes of Python calls.                                               *)
(***************************************************************************)
Ok(v) == [ok |-> TRUE, val |-> v]
Raise(e) == [ok |-> FALSE, exc |-> e]

(***************************************************************************)
(* JSON as json.loads sees it.  The text a language-model call returns is  *)
(* either not JSON at all or the serialisation of a JSON value; a JSON     *)
(* value is null, a string, an int, a bool, an array or an object (a       *)
(* function from the keys present to values).                              *)
(***************************************************************************)
JNull == [t |-> "null"]
JStr(s) == [t |-> "str", s |-> s]
JInt(n) == [t |-> "int", n |-> n]
JBool(b) == [t |-> "bool", b |-> b]
JArray == [t |-> "array"]
JObject(o) == [t |-> "object", o |-> o]

NotJson == [kind |-> "garbage"]
JsonText(v) == [kind |-> "json", val |-> v]

\* json.loads(text)
JsonLoads(text) ==
    IF text.kind = "json" THEN Ok(text.val) ELSE Raise("JSONDecodeError")

\* dict.get(key): None when the key is absent.
DictGet(o, key) == IF key \in DOMAIN o THEN o[key] ELSE JNull

\* dict[key]: KeyError when the key is absent.
DictItem(o, key) == IF key \in DOMAIN o THEN Ok(o[key]) ELSE Raise("KeyError")

\* Python truthiness of a JSON value (`if col_filter`, `if not col_return`).
Truthy(v) ==
    CASE v.t = "null" -> FALSE
      [] v.t = "str" -> v.s # <<>>
      [] v.t = "int" -> v.n # 0
      [] v.t = "bool" -> v.b
      [] OTHER -> TRUE

(***************************************************************************)
(* The table.  Column names are Python strs.                               *)
(***************************************************************************)
c_name == <<"n","a","m","e">>
c_department == <<"d","e","p","a","r","t","m","e","n","t">>
c_type == <<"t","y","p","e">>
c_status == <<"s","t","a","t","u","s">>
c_approved_by == <<"a","p","p","r","o","v","e","d","_","b","y">>
c_title == <<"t","i","t","l","e">>
c_credit_awarded == <<"c","r","e","d","i","t","_","a","w","a","r","d","e","d">>

\* Columns of the frame json_normalize builds (those the model carries).
Columns == {c_name, c_department, c_type, c_status, c_approved_by, c_title,
            c_credit_awarded}

\* The column whose cells are numbers; every other column holds strs.
IsNumericCol(col) == col = c_credit_awarded

\* row[col]
Cell(row, col) ==
    CASE col = c_name -> row.name
      [] col = c_department -> row.department
      [] col = c_type -> row.type
      [] col = c_status -> row.status
      [] col = c_approved_by -> row.approved_by
      [] col = c_title -> row.title
      [] col = c_credit_awarded -> row.credit_awarded

\* The source document students_achievements.json: student objects, each
\* with an `achievements` array.
Achievement(ty, ti, st, ap, cr) ==
    [type |-> ty, title |-> ti, status |-> st, approved_by |-> ap,
     credit_awarded |-> cr]

Student(n, d, achs) == [name |-> n, department |-> d, achievements |-> achs]

Students ==
    { Student(<<"A","l","i","c","e">>, <<"C","S">>, <<Achievement(<<"W","o","r","k","s","h","o","p">>, <<"A","I">>, <<"A","p","p","r","o","v","e","d">>, <<"D","r"," ","R","o","y">>, 3)>>),
      Student(<<"b","o","b">>, <<"e","e">>, <<Achievement(<<"s","e","m","i","n","a","r">>, <<"A","i">>, <<"p","e","n","d","i","n","g">>, <<"d","r"," ","l","e","e">>, 5)>>),
      Student(<<"C","a","r","a">>, <<"c","s">>,
              <<Achievement(<<"w","o","r","k","s","h","o","p">>, <<"a","i">>, <<"a","p","p","r","o","v","e","d">>, <<"d","r"," ","r","o","y">>, 3),
                Achievement(<<"S","e","m","i","n","a","r">>, <<"A","I">>, <<"a","p","p","r","o","v","e","d">>, <<"D","r"," ","L","e","e">>, 2)>>),
      Student(<<"A","L","I","C","E">>, <<"E","E">>, <<Achievement(<<"W","O","R","K","S","H","O","P">>, <<"a","i">>, <<"P","e","n","d","i","n","g">>, <<"d","r"," ","r","o","y">>, 1)>>) }

RECURSIVE SeqsUpTo(_, _)
\* The sequences over S of length at most n.
SeqsUpTo(S, n) ==
    IF n = 0 THEN {<<>>}
    ELSE LET shorter == SeqsUpTo(S, n - 1)
         IN  shorter \cup {Append(q, x) : q \in {p \in shorter : Len(p) = n - 1}, x \in S}

\* The documents: at most MaxStudents student objects, no student twice.
RawDocuments ==
    {d \in SeqsUpTo(Students, MaxStudents) :
        d # <<>> /\ \A i, j \in 1..Len(d) : i # j => d[i] # d[j]}

\* A document with more groups than the default top_n: eleven students, one
\* achievement each.
BigDocument ==
    [i \in 1..11 |->
        Student(<<LowerChars[i]>>, <<"c","s">>,
                <<Achievement(<<"w","o","r","k","s","h","o","p">>, <<"a","i">>, <<"a","p","p","r","o","v","e","d">>, <<"d","r"," ","r","o","y">>, (i * 3) % 7)>>)]

RECURSIVE Flatten(_)
\* pd.json_normalize(records, 'achievements', ['name', ..., 'department', ...]):
\* one row per achievement, carrying the parent's identity fields.
Flatten(raw) ==
    IF raw = <<>> THEN <<>>
    ELSE LET s == Head(raw)
         IN  [i \in 1..Len(s.achievements) |->
                 [name |-> s.name, department |-> s.department,
                  type |-> s.achievements[i].type,
                  title |-> s.achievements[i].title,
                  status |-> s.achievements[i].status,
                  approved_by |-> s.achievements[i].approved_by,
                  credit_awarded |-> s.achievements[i].credit_awarded]]
             \o Flatten(Tail(raw))

\* Mutant: the table kept as json_normalize returns it.
SanitizeNothing(rows) == rows

\* The five `.str.lower()` assignments of DataQueryEngine.__init__.
Sanitize(rows) ==
    [i \in 1..Len(rows) |->
        [rows[i] EXCEPT !.name = Lower(@), !.department = Lower(@),
                        !.type = Lower(@), !.status = Lower(@),
                        !.approved_by = Lower(@)]]

\* self.df as DataQueryEngine.__init__ leaves it.
LoadTable(raw) == Sanitize(Flatten(raw))

\* The source document of the worked examples: alice/workshop, bob/seminar.
ExampleDocument ==
    << Student(<<"A","l","i","c","e">>, <<"C","S">>, <<Achievement(<<"W","o","r","k","s","h","o","p">>, <<"A","I">>, <<"A","p","p","r","o","v","e","d">>, <<"D","r"," ","R","o","y">>, 3)>>),
       Student(<<"b","o","b">>, <<"e","e">>, <<Achievement(<<"s","e","m","i","n","a","r">>, <<"A","i">>, <<"p","e","n","d","i","n","g">>, <<"d","r"," ","l","e","e">>, 5)>>) >>

(***************************************************************************)
(* Text returned to the caller.  Fixed messages are kept whole; a built    *)
(* answer keeps its parts: "\n".join(lines) is the sequence of the lines,  *)
(* and a line f"{i+1}. {text}" is the pair of its number and its text.     *)
(***************************************************************************)
Fixed(msg) == [kind |-> "fixed", text |-> msg]
NumberedLine(i, text) == [num |-> i, text |-> text]
ResultList(lines) ==
    [kind |-> "list", header |-> "Here are the results:", lines |-> lines]
ResultSentence(text) ==
    [kind |-> "sentence", prefix |-> "The result is: ", text |-> text]
LlmText(t) == [kind |-> "llm", text |-> t]

MsgNoResults == Fixed("No results found for that query.")
MsgStructure == Fixed("Sorry, I had trouble understanding the structure of that query.")
MsgPlan == Fixed("Sorry, I had trouble creating a plan for that analytical query.")
MsgUnable == Fixed("Sorry, I was unable to process that data query.")
MsgRouterError == Fixed("Sorry, I encountered an error while processing your query.")

\* str(item) of a cell of column col.
CellStr(col, item) == IF IsNumericCol(col) THEN IntStr(item) ELSE item

\* item < other for two cells of column col.
CellLess(col, a, b) == IF IsNumericCol(col) THEN a < b ELSE StrLess(a, b)

\* [f"{i+1}. {str(item).title()}" for i, item in enumerate(items)]
FormatItems(col, items) ==
    [i \in 1..Len(items) |-> NumberedLine(i, Title(CellStr(col, items[i])))]

(***************************************************************************)
(* DataQueryEngine._execute_structured_query                               *)
(***************************************************************************)
IsColumn(v) == v.t = "str" /\ v.s \in Columns

\* self.df[col] == value, row by row: a str never equals a number.
CellEquals(row, col, value) ==
    IF IsNumericCol(col) THEN FALSE ELSE Cell(row, col) = value

RECURSIVE SelectRows(_, _, _)
\* self.df[self.df[col] == value]
SelectRows(rows, col, value) ==
    IF rows = <<>> THEN <<>>
    ELSE (IF CellEquals(Head(rows), col, value) THEN <<Head(rows)>> ELSE <<>>)
         \o SelectRows(Tail(rows), col, value)

\* frame[col]
Project(rows, col) == [i \in 1..Len(rows) |-> Cell(rows[i], col)]

\* The branch on `col_filter and val_filter is not None`.
FilterApplies(col_filter, val_filter) == Truthy(col_filter) /\ val_filter.t # "null"

\* Mutant: the filter value compared as given.
FilterValueAsGiven(val_filter) == val_filter.s

\* val_filter.lower()
FilterValue(val_filter) == Lower(val_filter.s)

\* Mutant: column_to_return validated only after the filter column was looked up.
ResultSeriesLateValidation(table, o) ==
    LET col_filter == DictGet(o, "column_to_filter")
        val_filter == DictGet(o, "filter_value")
        col_return == DictGet(o, "column_to_return")
    IN  IF FilterApplies(col_filter, val_filter) /\ ~IsColumn(col_filter)
        THEN Raise("KeyError")
        ELSE IF FilterApplies(col_filter, val_filter) /\ val_filter.t # "str"
        THEN Raise("AttributeError")
        ELSE IF ~Truthy(col_return) THEN Raise("ValueError")
        ELSE IF ~IsColumn(col_return) THEN Raise("KeyError")
        ELSE IF FilterApplies(col_filter, val_filter)
        THEN Ok(Project(SelectRows(table, col_filter.s, FilterValue(val_filter)),
                        col_return.s))
        ELSE Ok(Project(table, col_return.s))

\* result_series: the selected cells in row order, or the exception raised.
ResultSeries(table, o) ==
    LET col_filter == DictGet(o, "column_to_filter")
        val_filter == DictGet(o, "filter_value")
        col_return == DictGet(o, "column_to_return")
    IN  IF ~Truthy(col_return) THEN Raise("ValueError")
        ELSE IF FilterApplies(col_filter, val_filter)
        THEN IF ~IsColumn(col_filter) THEN Raise("KeyError")
             ELSE IF val_filter.t # "str" THEN Raise("AttributeError")
             ELSE IF ~IsColumn(col_return) THEN Raise("KeyError")
             ELSE Ok(Project(SelectRows(table, col_filter.s, FilterValue(val_filter)),
                             col_return.s))
        ELSE IF ~IsColumn(col_return) THEN Raise("KeyError")
             ELSE Ok(Project(table, col_return.s))

RECURSIVE Unique(_)
\* Series.unique().tolist(): the distinct values in order of first appearance.
Unique(items) ==
    IF items = <<>> THEN <<>>
    ELSE LET init == Unique(SubSeq(items, 1, Len(items) - 1))
             last == items[Len(items)]
         IN  IF \E i \in 1..Len(init) : init[i] = last THEN init
             ELSE Append(init, last)

\* Mutant: sorted(result, reverse=True).
SortedDescending(col, items) ==
    [i \in 1..Len(items) |->
        CHOOSE x \in {items[j] : j \in 1..Len(items)} :
            Cardinality({j \in 1..Len(items) : CellLess(col, x, items[j])}) = i - 1]

\* sorted(result) for a list of distinct cells of column col.
Sorted(col, items) ==
    [i \in 1..Len(items) |->
        CHOOSE x \in {items[j] : j \in 1..Len(items)} :
            Cardinality({j \in 1..Len(items) : CellLess(col, items[j], x)}) = i - 1]

\* Mutant: no `if not result` test.
FormatSelectionNoEmptyTest(col, series) ==
    ResultList(FormatItems(col, Sorted(col, Unique(series))))

\* The text _execute_structured_query builds from result_series.
FormatSelection(col, series) ==
    LET result == Unique(series)
    IN  IF result = <<>> THEN MsgNoResults
        ELSE ResultList(FormatItems(col, Sorted(col, result)))

\* The try body after the chain call: the text returned, or the exception.
StructuredBody(table, json_response) ==
    LET parsed == JsonLoads(json_response)
    IN  IF ~parsed.ok THEN parsed
        ELSE IF parsed.val.t # "object" THEN Raise("AttributeError")
        ELSE LET series == ResultSeries(table, parsed.val.o)
             IN  IF ~series.ok THEN series
                 ELSE Ok(FormatSelection(DictGet(parsed.val.o, "column_to_return").s,
                                         series.val))

\* except (json.JSONDecodeError, KeyError, ValueError)
StructuredCaught == {"JSONDecodeError", "KeyError", "ValueError"}

\* _execute_structured_query given what structured_query_chain.invoke did.
ExecuteStructuredQuery(table, chain_out) ==
    LET body == IF chain_out.ok THEN StructuredBody(table, chain_out.val) ELSE chain_out
    IN  IF body.ok THEN body
        ELSE IF body.exc \in StructuredCaught THEN Ok(MsgStructure)
        ELSE body

(***************************************************************************)
(* DataQueryEngine._execute_analytical_query                               *)
(***************************************************************************)
DefaultTopN == 10

\* The group keys of df.groupby(col): the distinct cells, in ascending order.
GroupKeys(table, col) == Sorted(col, Unique(Project(table, col)))

\* The cells of column agg_col in the rows of one group, in row order.
GroupCells(table, col, key, agg_col) ==
    LET RECURSIVE Pick(_)
        Pick(rows) ==
            IF rows = <<>> THEN <<>>
            ELSE (IF Cell(Head(rows), col) = key
                  THEN <<Cell(Head(rows), agg_col)>> ELSE <<>>) \o Pick(Tail(rows))
    IN  Pick(table)

RECURSIVE SumCells(_, _)
\* The sum of the cells of one group: numbers add, strs concatenate.
SumCells(agg_col, cells) ==
    IF cells = <<>> THEN (IF IsNumericCol(agg_col) THEN 0 ELSE <<>>)
    ELSE IF IsNumericCol(agg_col)
         THEN Head(cells) + SumCells(agg_col, Tail(cells))
         ELSE Head(cells) \o SumCells(agg_col, Tail(cells))

\* grouped_data.sum(): one value per group key, in key order.
GroupSum(table, col, agg_col) ==
    LET keys == GroupKeys(table, col)
    IN  [i \in 1..Len(keys) |-> SumCells(agg_col, GroupCells(table, col, keys[i], agg_col))]

\* grouped_data.size(): the number of rows of each group, in key order.
GroupSize(table, col, agg_col) ==
    LET keys == GroupKeys(table, col)
    IN  [i \in 1..Len(keys) |-> Len(GroupCells(table, col, keys[i], agg_col))]

\* a < b for two aggregate values.
AggLess(numeric, a, b) == IF numeric THEN a < b ELSE StrLess(a, b)

\* Mutant: a sort whose order of equal values changes after the first call.
SortValuesDrifting(values, numeric, ascending, rev) ==
    LET n == Len(values)
        flip == IF history = <<>> THEN rev ELSE ~rev
        Before(i, j) ==
            \/ IF ascending THEN AggLess(numeric, values[i], values[j])
                            ELSE AggLess(numeric, values[j], values[i])
            \/ /\ values[i] = values[j]
               /\ IF flip THEN i > j ELSE i < j
    IN  [p \in 1..n |->
            CHOOSE i \in 1..n : Cardinality({j \in 1..n : Before(j, i)}) = p - 1]

\* Series.sort_values(ascending=...): the positions of the groups in their new
\* order.  Equal values come out in key order, or reversed (rev): the sort
\* is not stable.
SortValues(values, numeric, ascending, rev) ==
    LET n == Len(values)
        Before(i, j) ==
            \/ IF ascending THEN AggLess(numeric, values[i], values[j])
                            ELSE AggLess(numeric, values[j], values[i])
            \/ /\ values[i] = values[j]
               /\ IF rev THEN i > j ELSE i < j
    IN  [p \in 1..n |->
            CHOOSE i \in 1..n : Cardinality({j \in 1..n : Before(j, i)}) = p - 1]

\* Series.head(n): n is an int, or None (the slice [:None] keeps everything).
HeadN(items, n) ==
    IF n.t = "null" THEN items
    ELSE IF n.n >= 0
         THEN SubSeq(items, 1, IF n.n < Len(items) THEN n.n ELSE Len(items))
         ELSE SubSeq(items, 1, IF Len(items) + n.n > 0 THEN Len(items) + n.n ELSE 0)

\* Mutant: grouped_data.sum().idxmin().
IdxMin(keys, values) ==
    LET best == CHOOSE i \in 1..Len(values) :
                    /\ \A j \in 1..Len(values) : values[j] >= values[i]
                    /\ \A j \in 1..(i - 1) : values[j] > values[i]
    IN  keys[best]

\* grouped_data.sum().idxmax(): the first key, in key order, with the largest sum.
IdxMax(keys, values) ==
    LET best == CHOOSE i \in 1..Len(values) :
                    /\ \A j \in 1..Len(values) : values[j] <= values[i]
                    /\ \A j \in 1..(i - 1) : values[j] < values[i]
    IN  keys[best]

\* Mutant: plan.get('sort_ascending', True).
SortAscendingDefaultTrue(plan) ==
    IF "sort_ascending" \in DOMAIN plan THEN plan["sort_ascending"] ELSE JBool(TRUE)

\* plan.get('sort_ascending', False)
SortAscending(plan) ==
    IF "sort_ascending" \in DOMAIN plan THEN plan["sort_ascending"] ELSE JBool(FALSE)

\* plan.get('top_n', 10)
TopN(plan) == IF "top_n" \in DOMAIN plan THEN plan["top_n"] ELSE JInt(DefaultTopN)

\* The tail of the try body: sort, head, format.
RankAndFormat(table, plan, col, values, numeric, rev) ==
    LET asc == SortAscending(plan)
        keys == GroupKeys(table, col)
    IN  IF asc.t # "bool" THEN Raise("ValueError")
        ELSE LET order == SortValues(values, numeric, asc.b, rev)
                 sorted_keys == [p \in 1..Len(order) |-> keys[order[p]]]
                 result == HeadN(sorted_keys, TopN(plan))
             IN  IF result = <<>> THEN Ok(MsgNoResults)
                 ELSE Ok(ResultList(FormatItems(col, result)))

\* plan['agg_func'] == name
IsFunc(v, name) == v.t = "str" /\ v.s = name

\* The try body after the chain call: the text returned, or the exception.
AnalyticalBody(table, json_plan_response, rev) ==
    LET parsed == JsonLoads(json_plan_response)
    IN  IF ~parsed.ok THEN parsed
        ELSE IF parsed.val.t # "object" THEN Raise("TypeError")
        ELSE
        LET plan == parsed.val.o
            g == DictItem(plan, "groupby_col")
            a == DictItem(plan, "agg_col")
            f == DictItem(plan, "agg_func")
        IN  IF ~g.ok THEN g
            ELSE IF g.val.t = "null" THEN Raise("TypeError")
            ELSE IF ~IsColumn(g.val) THEN Raise("KeyError")
            ELSE IF ~a.ok THEN a
            ELSE IF ~IsColumn(a.val) THEN Raise("KeyError")
            ELSE IF ~f.ok THEN f
            ELSE IF IsFunc(f.val, <<"s","u","m">>)
                 THEN RankAndFormat(table, plan, g.val.s,
                                    GroupSum(table, g.val.s, a.val.s),
                                    IsNumericCol(a.val.s), rev)
            ELSE IF IsFunc(f.val, <<"c","o","u","n","t">>)
                 THEN RankAndFormat(table, plan, g.val.s,
                                    GroupSize(table, g.val.s, a.val.s), TRUE, rev)
            ELSE IF IsFunc(f.val, <<"i","d","x","m","a","x">>)
                 THEN IF ~IsNumericCol(a.val.s) THEN Raise("TypeError")
                      ELSE Ok(ResultSentence(Title(CellStr(g.val.s,
                               IdxMax(GroupKeys(table, g.val.s),
                                      GroupSum(table, g.val.s, a.val.s))))))
            ELSE Raise("ValueError")

\* Mutant: except (json.JSONDecodeError, KeyError).
AnalyticalCaughtNoValueError == {"JSONDecodeError", "KeyError"}

\* except (json.JSONDecodeError, KeyError, ValueError)
AnalyticalCaught == {"JSONDecodeError", "KeyError", "ValueError"}

\* _execute_analytical_query given what analytical_planner_chain.invoke did:
\* the second handler, `except Exception`, lets nothing out.
ExecuteAnalyticalQuery(table, chain_out, rev) ==
    LET body == IF chain_out.ok THEN AnalyticalBody(table, chain_out.val, rev)
                ELSE chain_out
    IN  IF body.ok THEN body
        ELSE IF body.exc \in AnalyticalCaught THEN Ok(MsgPlan)
        ELSE Ok(MsgUnable)

(***************************************************************************)
(* What the language model and the retriever may answer.  Every call       *)
(* either returns a text or fails with a transport error.                  *)
(***************************************************************************)
portfolio_summary == <<"p","o","r","t","f","o","l","i","o","_","s","u","m","m","a","r","y">>
general_query == <<"g","e","n","e","r","a","l","_","q","u","e","r","y">>
general_conversation == <<"g","e","n","e","r","a","l","_","c","o","n","v","e","r","s","a","t","i","o","n">>
simple_filter == <<"s","i","m","p","l","e","_","f","i","l","t","e","r">>
complex_analysis == <<"c","o","m","p","l","e","x","_","a","n","a","l","y","s","i","s">>

RECURSIVE Concat(_)
Concat(frags) == IF frags = <<>> THEN <<>> ELSE Head(frags) \o Concat(Tail(frags))

\* Texts made of at most n of the fragments.
TextsOf(frags, n) == {Concat(q) : q \in SeqsUpTo(frags, n)}

RouterFrags == {portfolio_summary, general_query, general_conversation, <<" ">>}
RouterTexts == TextsOf(RouterFrags, MaxFrags)

QueryTypeFrags == {simple_filter, complex_analysis, <<" ">>, <<"s","i","m","p","l","e">>}
QueryTypeTexts == TextsOf(QueryTypeFrags, MaxFrags)

\* The labels alone, and the empty answer.
QueryTypeLabels == {simple_filter, complex_analysis, <<>>}

AnswerTexts == {<<"o","k">>, <<>>}

\* request.json.get('query'): None, or the str sent.
NoQuery == [t |-> "null"]
Queries == {NoQuery, JStr(<<>>), JStr(<<"A","l","i","c","e">>)}

DownstreamError == Raise("APIError")

\* config.TOP_K: search_kwargs={"k": TOP_K}
TOP_K == 8

\* A chunk of the vector store: its text names the student it is about.
Document(id, name) == [id |-> id, page_content |-> name]

\* The chunks of the store in the order of their similarity to a query: nine
\* chunks alternating between two students, the same in reverse, a store of
\* two chunks and an empty store.
Rankings ==
    LET all == [i \in 1..(TOP_K + 1) |->
                    Document(i, IF i % 2 = 1 THEN <<"A","l","i","c","e">>
                                             ELSE <<"b","o","b">>)]
    IN  {all, [i \in 1..Len(all) |-> all[Len(all) + 1 - i]], SubSeq(all, 1, 2), <<>>}

\* retriever.invoke(query) with search_kwargs k: the k most similar chunks.
SimilaritySearch(ranking, k) ==
    SubSeq(ranking, 1, IF Len(ranking) < k THEN Len(ranking) ELSE k)
Outcomes(texts) == {Ok(t) : t \in texts} \cup {DownstreamError}

\* The objects over the given keys: each key absent, or one of its values.
ObjectsOver(vals) ==
    UNION { {o \in [K -> UNION {vals[k] : k \in DOMAIN vals}] :
                \A k \in K : o[k] \in vals[k]} : K \in SUBSET DOMAIN vals }

s_workshop == <<"w","o","r","k","s","h","o","p">>
s_grade == <<"g","r","a","d","e">>

FilterObjects ==
    ObjectsOver([column_to_filter |-> {JNull, JStr(c_type), JStr(c_name), JStr(c_title),
                                       JStr(c_credit_awarded), JStr(s_grade), JStr(<<>>)},
                 filter_value |-> {JNull, JStr(s_workshop), JStr(<<"W","o","r","k","s","h","o","p">>),
                                   JStr(<<"A","I">>), JStr(<<"A","L","I","C","E">>),
                                   JStr(<<"3">>), JStr(<<>>), JInt(3)},
                 column_to_return |-> {JNull, JStr(c_name), JStr(c_title),
                                       JStr(c_credit_awarded), JStr(s_grade), JStr(<<>>)}])

FilterTexts ==
    {NotJson, JsonText(JArray), JsonText(JNull)}
        \cup {JsonText(JObject(o)) : o \in FilterObjects}

f_sum == <<"s","u","m">>
f_count == <<"c","o","u","n","t">>
f_idxmax == <<"i","d","x","m","a","x">>
f_mean == <<"m","e","a","n">>

\* Plans that name real columns and a known or unknown function.
CorePlans ==
    ObjectsOver([sort_ascending |-> {JNull, JBool(TRUE), JBool(FALSE)},
                 top_n |-> {JNull, JInt(0), JInt(1), JInt(2), JInt(0 - 1)}])

PlanHeads ==
    { [groupby_col |-> JStr(g), agg_col |-> JStr(a), agg_func |-> JStr(f)] :
        g \in {c_name, c_type, c_credit_awarded},
        a \in {c_credit_awarded, c_name},
        f \in {f_sum, f_count, f_idxmax, f_mean} }

\* The union of two objects, the keys of f winning.
Merge(f, g) ==
    [k \in DOMAIN f \cup DOMAIN g |-> IF k \in DOMAIN f THEN f[k] ELSE g[k]]

\* A plan with one required key dropped, set to null or naming no column.
BrokenPlans ==
    LET Base(f) == [groupby_col |-> JStr(c_name), agg_col |-> JStr(c_credit_awarded),
                    agg_func |-> JStr(f), top_n |-> JInt(1)]
    IN  {[k \in DOMAIN Base(f) \ {d} |-> Base(f)[k]] :
            d \in {"groupby_col", "agg_col", "agg_func"}, f \in {f_sum, f_count}}
        \cup {[Base(f) EXCEPT ![d] = v] :
                d \in {"groupby_col", "agg_col", "agg_func"},
                v \in {JNull, JStr(s_grade)}, f \in {f_sum, f_count}}

PlanObjects == {Merge(h, t) : h \in PlanHeads, t \in CorePlans} \cup BrokenPlans

PlanTexts ==
    {NotJson, JsonText(JArray), JsonText(JNull)}
        \cup {JsonText(JObject(o)) : o \in PlanObjects}

\* One text of each kind, for the runs that vary the routing instead.
FilterSamples ==
    {NotJson, JsonText(JArray),
     JsonText(JObject([column_to_return |-> JStr(c_name)])),
     JsonText(JObject([column_to_filter |-> JStr(c_type),
                       filter_value |-> JStr(<<"W","o","r","k","s","h","o","p">>),
                       column_to_return |-> JStr(c_name)])),
     JsonText(JObject([column_to_filter |-> JStr(c_type),
                       filter_value |-> JStr(s_grade),
                       column_to_return |-> JStr(c_name)])),
     JsonText(JObject([column_to_filter |-> JStr(c_type),
                       filter_value |-> JStr(s_workshop)]))}

PlanSamples ==
    {NotJson, JsonText(JArray),
     JsonText(JObject([groupby_col |-> JStr(c_name), agg_col |-> JStr(c_credit_awarded),
                       agg_func |-> JStr(f_sum), sort_ascending |-> JBool(FALSE),
                       top_n |-> JInt(1)])),
     JsonText(JObject([groupby_col |-> JStr(c_name), agg_col |-> JStr(c_credit_awarded),
                       agg_func |-> JStr(f_idxmax)])),
     JsonText(JObject([groupby_col |-> JStr(c_type), agg_col |-> JStr(c_type),
                       agg_func |-> JStr(f_count), top_n |-> JInt(0)])),
     JsonText(JObject([groupby_col |-> JStr(c_name), agg_col |-> JStr(c_credit_awarded),
                       agg_func |-> JStr(f_mean)])),
     JsonText(JObject([agg_col |-> JStr(c_credit_awarded), agg_func |-> JStr(f_sum)]))}

(***************************************************************************)
(* Startup: application.py builds the four module globals inside one try.  *)
(* create_rag_chain logs its own failure and returns None; a failure of    *)
(* DataQueryEngine() or of the final load_llm resets all four to None.     *)
(***************************************************************************)
Deps == [llm : BOOLEAN, db : BOOLEAN, file : BOOLEAN]

\* create_rag_chain(): the chain, or None when the LLM or the vector store is missing.
CreateRagChain(deps) == IF deps.llm /\ deps.db THEN "ok" ELSE "None"

\* DataQueryEngine(): raises CustomException when the file or the LLM is missing.
EngineInit(deps) == IF deps.file /\ deps.llm THEN Ok("ok") ELSE Raise("CustomException")

\* The values of (rag_chain, data_query_engine, router_chain, general_chain)
\* after the startup try/except.
Startup(deps) ==
    IF EngineInit(deps).ok /\ deps.llm
    THEN [rag_chain |-> CreateRagChain(deps), data_query_engine |-> "ok",
          router_chain |-> "ok", general_chain |-> "ok"]
    ELSE [rag_chain |-> "None", data_query_engine |-> "None",
          router_chain |-> "None", general_chain |-> "None"]

(***************************************************************************)
(* Responses of get_response.                                              *)
(***************************************************************************)
Response(text) == [code |-> 200, kind |-> "response", text |-> text]
ErrorResponse(code, msg) == [code |-> code, kind |-> "error", text |-> Fixed(msg)]
Escaped(exc) == [code |-> 500, kind |-> "exception", text |-> exc]
NoResponse == [code |-> 0, kind |-> "none", text |-> <<>>]

MsgUnavailable == "The AI model is not available. Please check server logs."
MsgEmptyQuery == "Query cannot be empty."
MsgInternal == "An internal error occurred while generating the response."

\* Mutant: the handler without its `except Exception`.
HandleRequestNoCatch(outcome) ==
    IF outcome.ok THEN Response(outcome.val) ELSE Escaped(outcome.exc)

\* The try/except of get_response around routing and dispatch.
HandleRequest(outcome) ==
    IF outcome.ok THEN Response(outcome.val) ELSE ErrorResponse(500, MsgInternal)

\* Mutant: the handler of query_data raising CustomException, as __init__ does.
HandleQueryDataReraise(outcome) ==
    IF outcome.ok THEN outcome ELSE Raise("CustomException")

\* Mutant: query_data without its try/except.
HandleQueryDataNoCatch(outcome) == outcome

\* The try/except of query_data: every exception becomes a fixed string.
HandleQueryData(outcome) == IF outcome.ok THEN outcome ELSE Ok(MsgRouterError)

\* Mutant: the two containment tests in the other order.
BranchQueryFirst(route) ==
    IF StrIn(general_query, route) THEN "general_query"
    ELSE IF StrIn(portfolio_summary, route) THEN "portfolio_summary"
    ELSE "general_conversation"

\* Mutant: an exact comparison with the conversation label, the data-query
\* engine being the default.
BranchExactConversation(route) ==
    IF StrIn(portfolio_summary, route) THEN "portfolio_summary"
    ELSE IF route = general_conversation THEN "general_conversation"
    ELSE "general_query"

\* The if/elif/else on the stripped router answer.
Branch(route) ==
    IF StrIn(portfolio_summary, route) THEN "portfolio_summary"
    ELSE IF StrIn(general_query, route) THEN "general_query"
    ELSE "general_conversation"

\* Mutant: the test is for the other label, simple_filter being the default.
QueryBranchComplexFirst(query_type) ==
    IF StrIn(complex_analysis, query_type) THEN "complex_analysis" ELSE "simple_filter"

\* The if/else of query_data on the stripped classifier answer.
QueryBranch(query_type) ==
    IF StrIn(simple_filter, query_type) THEN "simple_filter" ELSE "complex_analysis"

\* rag_chain ends in StrOutputParser(): invoke returns a str.
RagChainResult(answer) == [t |-> "str", s |-> answer]

\* result_dict.get('answer', "Sorry, I couldn't generate a summary.")
PortfolioText(result_dict) ==
    IF result_dict.t = "dict"
    THEN Ok(IF "answer" \in DOMAIN result_dict.d THEN LlmText(result_dict.d["answer"])
            ELSE Fixed("Sorry, I couldn't generate a summary."))
    ELSE Raise("AttributeError")

(***************************************************************************)
(* Requests.                                                               *)
(***************************************************************************)
\* The requests in service: the worker serves one at a time.
ReqIds == {1}

NewRequest ==
    [pc |-> "idle", user_query |-> NoQuery, router_text |-> <<>>, route |-> <<>>,
     branch |-> "none",
     query_text |-> <<>>, query_type |-> <<>>, path |-> "none", chain_out |-> Ok(<<>>),
     context |-> <<>>,
     calls |-> <<>>, failed |-> FALSE, response |-> NoResponse]

Finish(q, resp) == [q EXCEPT !.pc = "done", !.response = resp]

\* The chains a request has invoked so far.
CallSet(q) == {q.calls[i] : i \in 1..Len(q.calls)}

Called(q, name, out) ==
    [q EXCEPT !.calls = Append(@, name), !.failed = @ \/ ~out.ok]

\* get_response up to the try: the availability guard and the empty-query guard.
Receive(r) ==
    /\ req[r].pc = "idle"
    /\ \E uq \in Queries :
        LET q == [req[r] EXCEPT !.user_query = uq]
        IN  req' = [req EXCEPT ![r] =
                IF router_chain = "None"
                THEN Finish(q, ErrorResponse(500, MsgUnavailable))
                ELSE IF ~Truthy(uq)
                THEN Finish(q, ErrorResponse(400, MsgEmptyQuery))
                ELSE [q EXCEPT !.pc = "routing"]]
    /\ UNCHANGED <<rag_chain, data_query_engine, router_chain, general_chain, df, tie_rev,
                 history>>

\* route = router_chain.invoke(...).strip() and the dispatch that follows.
Route(r, texts) ==
    /\ req[r].pc = "routing"
    /\ \E out \in Outcomes(texts) :
        LET q == Called(req[r], "router", out)
        IN  req' = [req EXCEPT ![r] =
                IF ~out.ok THEN Finish(q, HandleRequest(out))
                ELSE LET route == Strip(out.val)
                         b == Branch(route)
                         q2 == [q EXCEPT !.router_text = out.val, !.route = route,
                                         !.branch = b]
                     IN  IF b = "portfolio_summary"
                         THEN IF rag_chain = "None"
                              THEN Finish(q2, HandleRequest(Raise("AttributeError")))
                              ELSE [q2 EXCEPT !.pc = "rag_rewrite"]
                         ELSE IF b = "general_query"
                         THEN [q2 EXCEPT !.pc = "classify"]
                         ELSE [q2 EXCEPT !.pc = "general"]]
    /\ UNCHANGED <<rag_chain, data_query_engine, router_chain, general_chain, df, tie_rev,
                 history>>

\* rag_chain.invoke, first stage: PROMPT_REWRITE_QUERY | llm | StrOutputParser().
RagRewrite(r) ==
    /\ req[r].pc = "rag_rewrite"
    /\ \E out \in Outcomes(AnswerTexts) :
        LET q == Called(req[r], "rewrite", out)
        IN  req' = [req EXCEPT ![r] =
                IF ~out.ok THEN Finish(q, HandleRequest(out))
                ELSE [q EXCEPT !.pc = "rag_retrieve"]]
    /\ UNCHANGED <<rag_chain, data_query_engine, router_chain, general_chain, df, tie_rev,
                 history>>

\* rag_chain.invoke, second stage: the retriever on the rewritten query; its
\* result is the "context" input of PROMPT_FINAL_ANSWER.
RagRetrieve(r) ==
    /\ req[r].pc = "rag_retrieve"
    /\ \E out \in {Ok(SimilaritySearch(rk, TOP_K)) : rk \in Rankings} \cup {DownstreamError} :
        LET q == Called(req[r], "retriever", out)
        IN  req' = [req EXCEPT ![r] =
                IF ~out.ok THEN Finish(q, HandleRequest(out))
                ELSE [q EXCEPT !.context = out.val, !.pc = "rag_answer"]]
    /\ UNCHANGED <<rag_chain, data_query_engine, router_chain, general_chain, df, tie_rev,
                 history>>

\* rag_chain.invoke, last stage (PROMPT_FINAL_ANSWER | llm | StrOutputParser()),
\* then result_dict.get('answer', ...) and the return.
RagAnswer(r) ==
    /\ req[r].pc = "rag_answer"
    /\ \E out \in Outcomes(AnswerTexts) :
        LET q == [Called(req[r], "synthesis", out) EXCEPT !.chain_out = out]
        IN  req' = [req EXCEPT ![r] =
                IF ~out.ok THEN Finish(q, HandleRequest(out))
                ELSE Finish(q, HandleRequest(PortfolioText(RagChainResult(out.val))))]
    /\ UNCHANGED <<rag_chain, data_query_engine, router_chain, general_chain, df, tie_rev,
                 history>>

\* Mutant: general_chain.invoke tried a second time when it fails.
GeneralRetry(r) ==
    /\ req[r].pc = "general"
    /\ \E out \in Outcomes(AnswerTexts) :
        LET q == Called(req[r], "general", out)
        IN  req' = [req EXCEPT ![r] =
                IF ~out.ok /\ "general" \notin CallSet(req[r]) THEN q
                ELSE Finish(q, HandleRequest(IF out.ok THEN Ok(LlmText(out.val)) ELSE out))]
    /\ UNCHANGED <<rag_chain, data_query_engine, router_chain, general_chain, df, tie_rev,
                 history>>

\* general_chain.invoke and the return.
General(r) ==
    /\ req[r].pc = "general"
    /\ \E out \in Outcomes(AnswerTexts) :
        LET q == [Called(req[r], "general", out) EXCEPT !.chain_out = out]
        IN  req' = [req EXCEPT ![r] =
                Finish(q, HandleRequest(IF out.ok THEN Ok(LlmText(out.val)) ELSE out))]
    /\ UNCHANGED <<rag_chain, data_query_engine, router_chain, general_chain, df, tie_rev,
                 history>>

\* query_data: query_type = self.router_chain.invoke(...).strip() and the branch.
Classify(r, texts) ==
    /\ req[r].pc = "classify"
    /\ \E out \in Outcomes(texts) :
        LET q == Called(req[r], "sub_router", out)
        IN  req' = [req EXCEPT ![r] =
                IF ~out.ok THEN Finish(q, HandleRequest(HandleQueryData(out)))
                ELSE LET query_type == Strip(out.val)
                         b == QueryBranch(query_type)
                     IN  [q EXCEPT !.query_text = out.val, !.query_type = query_type,
                                   !.path = b,
                                   !.pc = IF b = "simple_filter" THEN "filter_extract"
                                          ELSE "plan_extract"]]
    /\ UNCHANGED <<rag_chain, data_query_engine, router_chain, general_chain, df, tie_rev,
                 history>>

\* _execute_structured_query: json_response = self.structured_query_chain.invoke(...)
FilterExtract(r, texts) ==
    /\ req[r].pc = "filter_extract"
    /\ \E out \in Outcomes(texts) :
        LET q == [Called(req[r], "filter_extraction", out) EXCEPT !.chain_out = out]
        IN  req' = [req EXCEPT ![r] =
                IF ~out.ok
                THEN Finish(q, HandleRequest(HandleQueryData(
                                  ExecuteStructuredQuery(df, out))))
                ELSE [q EXCEPT !.pc = "filter_exec"]]
    /\ UNCHANGED <<rag_chain, data_query_engine, router_chain, general_chain, df, tie_rev,
                 history>>

\* Mutant: the filter applied in place, self.df = df[df[col_filter] == value].
FilterExecuteInPlace(r) ==
    /\ req[r].pc = "filter_exec"
    /\ req' = [req EXCEPT ![r] =
            Finish(req[r], HandleRequest(HandleQueryData(
                ExecuteStructuredQuery(df, req[r].chain_out))))]
    /\ df' = LET parsed == JsonLoads(req[r].chain_out.val)
             IN  IF parsed.ok /\ parsed.val.t = "object"
                    /\ ResultSeries(df, parsed.val.o).ok
                    /\ FilterApplies(DictGet(parsed.val.o, "column_to_filter"),
                                     DictGet(parsed.val.o, "filter_value"))
                 THEN SelectRows(df, DictGet(parsed.val.o, "column_to_filter").s,
                                 FilterValue(DictGet(parsed.val.o, "filter_value")))
                 ELSE df
    /\ UNCHANGED <<rag_chain, data_query_engine, router_chain, general_chain, tie_rev,
                 history>>

\* Mutant: query_data without the else, the analytical path following the
\* structured one.
FilterExecuteFallsThrough(r) ==
    /\ req[r].pc = "filter_exec"
    /\ req' = [req EXCEPT ![r] = [@ EXCEPT !.pc = "plan_extract"]]
    /\ UNCHANGED <<rag_chain, data_query_engine, router_chain, general_chain, df, tie_rev,
                 history>>

\* _execute_structured_query from json.loads on, back through query_data to the caller.
FilterExecute(r) ==
    /\ req[r].pc = "filter_exec"
    /\ req' = [req EXCEPT ![r] =
            Finish(req[r], HandleRequest(HandleQueryData(
                ExecuteStructuredQuery(df, req[r].chain_out))))]
    /\ UNCHANGED <<rag_chain, data_query_engine, router_chain, general_chain, df, tie_rev,
                 history>>

\* _execute_analytical_query: json_plan_response = self.analytical_planner_chain.invoke(...)
PlanExtract(r, texts) ==
    /\ req[r].pc = "plan_extract"
    /\ \E out \in Outcomes(texts) :
        LET q == [Called(req[r], "plan_extraction", out) EXCEPT !.chain_out = out]
        IN  req' = [req EXCEPT ![r] =
                IF ~out.ok
                THEN Finish(q, HandleRequest(HandleQueryData(
                                  ExecuteAnalyticalQuery(df, out, tie_rev))))
                ELSE [q EXCEPT !.pc = "plan_exec"]]
    /\ UNCHANGED <<rag_chain, data_query_engine, router_chain, general_chain, df, tie_rev,
                 history>>

\* Mutant: the grouping done in place, self.df keeping the first row of each group.
PlanExecuteInPlace(r) ==
    /\ req[r].pc = "plan_exec"
    /\ req' = [req EXCEPT ![r] =
            Finish(req[r], HandleRequest(HandleQueryData(
                ExecuteAnalyticalQuery(df, req[r].chain_out, tie_rev))))]
    /\ df' = LET parsed == JsonLoads(req[r].chain_out.val)
             IN  IF parsed.ok /\ parsed.val.t = "object"
                    /\ "groupby_col" \in DOMAIN parsed.val.o
                    /\ IsColumn(parsed.val.o["groupby_col"])
                 THEN SelectSeq(df, LAMBDA row :
                        row = df[CHOOSE i \in 1..Len(df) :
                                   /\ Cell(df[i], parsed.val.o["groupby_col"].s)
                                        = Cell(row, parsed.val.o["groupby_col"].s)
                                   /\ \A j \in 1..(i - 1) :
                                        Cell(df[j], parsed.val.o["groupby_col"].s)
                                        # Cell(row, parsed.val.o["groupby_col"].s)])
                 ELSE df
    /\ UNCHANGED <<rag_chain, data_query_engine, router_chain, general_chain, tie_rev,
                 history>>

\* _execute_analytical_query from json.loads on, back through query_data to the caller.
PlanExecute(r) ==
    /\ req[r].pc = "plan_exec"
    /\ req' = [req EXCEPT ![r] =
            Finish(req[r], HandleRequest(HandleQueryData(
                ExecuteAnalyticalQuery(df, req[r].chain_out, tie_rev))))]
    /\ UNCHANGED <<rag_chain, data_query_engine, router_chain, general_chain, df, tie_rev,
                 history>>

\* The worker takes the next request.
NextRequest(r) ==
    /\ req[r].pc = "done"
    /\ req' = [req EXCEPT ![r] = NewRequest]
    /\ UNCHANGED <<rag_chain, data_query_engine, router_chain, general_chain, df, tie_rev,
                 history>>

(***************************************************************************)
(* Spec: the Flask application serving requests over the example table;    *)
(* the classifier answers vary, the extraction answers are one of each     *)
(* kind.                                                                   *)
(***************************************************************************)
InitWith(deps, raw, rev) ==
    LET g == Startup(deps)
    IN  /\ rag_chain = g.rag_chain
        /\ data_query_engine = g.data_query_engine
        /\ router_chain = g.router_chain
        /\ general_chain = g.general_chain
        /\ df = IF g.data_query_engine = "ok" THEN LoadTable(raw) ELSE <<>>
        /\ tie_rev = rev
        /\ req = [r \in ReqIds |-> NewRequest]
        /\ history = <<>>

Init == \E deps \in Deps, rev \in BOOLEAN : InitWith(deps, ExampleDocument, rev)

Next ==
    \/ \E r \in ReqIds : Receive(r)
    \/ \E r \in ReqIds : Route(r, RouterTexts)
    \/ \E r \in ReqIds : RagRewrite(r)
    \/ \E r \in ReqIds : RagRetrieve(r)
    \/ \E r \in ReqIds : RagAnswer(r)
    \/ \E r \in ReqIds : General(r)
    \/ \E r \in ReqIds : Classify(r, QueryTypeTexts)
    \/ \E r \in ReqIds : FilterExtract(r, FilterSamples)
    \/ \E r \in ReqIds : FilterExecute(r)
    \/ \E r \in ReqIds : PlanExtract(r, PlanSamples)
    \/ \E r \in ReqIds : PlanExecute(r)
    \/ \E r \in ReqIds : NextRequest(r)

Spec == Init /\ [][Next]_vars

(***************************************************************************)
(* SpecEngine: DataQueryEngine.query_data called on an engine that loaded  *)
(* any of the source documents; the extraction answers vary.               *)
(***************************************************************************)
InitEngine ==
    \E raw \in RawDocuments \cup {BigDocument}, rev \in BOOLEAN :
        /\ InitWith([llm |-> TRUE, db |-> TRUE, file |-> TRUE], raw, rev)

\* query_data is entered directly with a query.
EnterQueryData(r) ==
    /\ req[r].pc = "idle"
    /\ req' = [req EXCEPT ![r] =
            [@ EXCEPT !.user_query = JStr(<<"A","l","i","c","e">>),
                      !.branch = "general_query", !.pc = "classify"]]
    /\ UNCHANGED <<rag_chain, data_query_engine, router_chain, general_chain, df, tie_rev,
                 history>>

NextEngine ==
    \/ \E r \in ReqIds : EnterQueryData(r)
    \/ \E r \in ReqIds : Classify(r, QueryTypeLabels)
    \/ \E r \in ReqIds : FilterExtract(r, FilterTexts)
    \/ \E r \in ReqIds : FilterExecute(r)
    \/ \E r \in ReqIds : PlanExtract(r, PlanTexts)
    \/ \E r \in ReqIds : PlanExecute(r)
    \/ \E r \in ReqIds : NextRequest(r)

SpecEngine == InitEngine /\ [][NextEngine]_vars

(***************************************************************************)
(* Requests served concurrently: Flask's app.run serves each request in    *)
(* its own thread; the threads share the module globals and self.df, and   *)
(* take their steps in any order.                                          *)
(***************************************************************************)
MaxConcurrent == 2    \* requests being served at the same time

Workers == 1..MaxConcurrent

RouterLabels == {portfolio_summary, general_query, general_conversation}

ConcurrentFilterTexts ==
    {NotJson,
     JsonText(JObject([column_to_filter |-> JStr(c_type),
                       filter_value |-> JStr(<<"W","o","r","k","s","h","o","p">>),
                       column_to_return |-> JStr(c_name)]))}

ConcurrentPlanTexts ==
    {JsonText(JArray),
     JsonText(JObject([groupby_col |-> JStr(c_type), agg_col |-> JStr(c_credit_awarded),
                       agg_func |-> JStr(f_count), sort_ascending |-> JBool(TRUE)]))}

\* A table in which one group has two rows.
ConcurrentDocument ==
    <<Student(<<"A","l","i","c","e">>, <<"C","S">>,
        <<Achievement(<<"W","o","r","k","s","h","o","p">>, <<"A","I">>, <<"A","p","p","r","o","v","e","d">>, <<"D","r"," ","R","o","y">>, 3),
          Achievement(<<"s","e","m","i","n","a","r">>, <<"A","i">>, <<"p","e","n","d","i","n","g">>, <<"d","r"," ","l","e","e">>, 5)>>),
      Student(<<"b","o","b">>, <<"e","e">>,
        <<Achievement(<<"s","e","m","i","n","a","r">>, <<"A","i">>, <<"p","e","n","d","i","n","g">>, <<"d","r"," ","l","e","e">>, 5)>>)>>

InitConcurrent ==
    \E deps \in Deps :
        LET g == Startup(deps)
        IN  /\ rag_chain = g.rag_chain
            /\ data_query_engine = g.data_query_engine
            /\ router_chain = g.router_chain
            /\ general_chain = g.general_chain
            /\ df = IF g.data_query_engine = "ok" THEN LoadTable(ConcurrentDocument)
                    ELSE <<>>
            /\ tie_rev = FALSE
            /\ req = [r \in Workers |-> NewRequest]
            /\ history = <<>>

NextConcurrent ==
    \/ \E r \in Workers : Receive(r)
    \/ \E r \in Workers : Route(r, RouterLabels)
    \/ \E r \in Workers : RagRewrite(r)
    \/ \E r \in Workers : RagRetrieve(r)
    \/ \E r \in Workers : RagAnswer(r)
    \/ \E r \in Workers : General(r)
    \/ \E r \in Workers : Classify(r, {simple_filter, complex_analysis})
    \/ \E r \in Workers : FilterExtract(r, ConcurrentFilterTexts)
    \/ \E r \in Workers : FilterExecute(r)
    \/ \E r \in Workers : PlanExtract(r, ConcurrentPlanTexts)
    \/ \E r \in Workers : PlanExecute(r)
    \/ \E r \in Workers : NextRequest(r)

SpecConcurrent == InitConcurrent /\ [][NextConcurrent]_vars

(***************************************************************************)
(* query_data called twice on one engine: the first call is kept in        *)
(* history when the second is made.                                        *)
(***************************************************************************)
InitTwice ==
    \E raw \in RawDocuments, rev \in BOOLEAN :
        InitWith([llm |-> TRUE, db |-> TRUE, file |-> TRUE], raw, rev)

\* query_data has returned and is called again; the first finished call is kept.
CallAgain(r) ==
    /\ req[r].pc = "done"
    /\ history = <<>>
    /\ history' = Append(history, req[r])
    /\ req' = [req EXCEPT ![r] = NewRequest]
    /\ UNCHANGED <<rag_chain, data_query_engine, router_chain, general_chain, df, tie_rev>>

NextTwice ==
    \/ \E r \in ReqIds : EnterQueryData(r)
    \/ \E r \in ReqIds : Classify(r, QueryTypeLabels)
    \/ \E r \in ReqIds : FilterExtract(r, FilterSamples)
    \/ \E r \in ReqIds : FilterExecute(r)
    \/ \E r \in ReqIds : PlanExtract(r, PlanSamples)
    \/ \E r \in ReqIds : PlanExecute(r)
    \/ \E r \in ReqIds : CallAgain(r)
    \/ \E r \in ReqIds : NextRequest(r)

SpecTwice == InitTwice /\ [][NextTwice]_vars

(***************************************************************************)
(* Properties of the top-level routing (under Spec).                       *)
(***************************************************************************)
Dispatched(q) == q.branch # "none"

EnginePcs == {"classify", "filter_extract", "filter_exec", "plan_extract", "plan_exec"}
RagPcs == {"rag_rewrite", "rag_retrieve", "rag_answer"}
EngineCalls == {"sub_router", "filter_extraction", "plan_extraction"}
RagCalls == {"rewrite", "retriever", "synthesis"}

HasBothMarkers(text) == StrIn(portfolio_summary, text) /\ StrIn(general_query, text)
HasNoMarker(text) == ~StrIn(portfolio_summary, text) /\ ~StrIn(general_query, text)

\* C1: a router response containing both `portfolio_summary` and
\* `general_query`, in any order, sends the request to the portfolio (RAG)
\* branch: the request is never in the data-query engine or the conversation
\* chain and calls neither.
C1_TieBreakPortfolio ==
    \A r \in ReqIds :
        (Dispatched(req[r]) /\ HasBothMarkers(req[r].router_text)) =>
            /\ req[r].branch = "portfolio_summary"
            /\ req[r].pc \in RagPcs \cup {"done"}
            /\ CallSet(req[r]) \subseteq {"router"} \cup RagCalls

\* C1 witness: the response "general_query" followed by "portfolio_summary"
\* has been dispatched and the RAG chain is running.
C1_Witness ==
    \E r \in ReqIds :
        /\ req[r].router_text = general_query \o portfolio_summary
        /\ req[r].pc = "rag_retrieve"
        /\ "rewrite" \in CallSet(req[r])

\* C2: a router response containing neither marker (the empty and the
\* whitespace-only response included) sends the request to the conversation
\* chain, and unless that chain's own call fails the caller gets its answer
\* with status 200, never an error.
C2_DefaultConversation ==
    \A r \in ReqIds :
        (Dispatched(req[r]) /\ HasNoMarker(req[r].router_text)) =>
            /\ req[r].branch = "general_conversation"
            /\ req[r].pc \in {"general", "done"}
            /\ CallSet(req[r]) \subseteq {"router", "general"}
            /\ (req[r].pc = "done" /\ ~req[r].failed) =>
                    /\ req[r].response.code = 200
                    /\ req[r].response.kind = "response"
                    /\ req[r].response.text.kind = "llm"

\* C2 witness: a whitespace-only router response, answered by the
\* conversation chain.
C2_Witness ==
    \E r \in ReqIds :
        /\ req[r].router_text = <<" ">>
        /\ req[r].pc = "done"
        /\ req[r].calls = <<"router", "general">>
        /\ req[r].response.code = 200

\* C3 (the claim as stated): on the portfolio branch, when every component
\* initialized and the synthesis call returned its answer, the text returned
\* to the caller is exactly that answer.
C3_PortfolioReturnsAnswer ==
    \A r \in ReqIds :
        ( /\ req[r].pc = "done"
          /\ req[r].branch = "portfolio_summary"
          /\ rag_chain = "ok"
          /\ "synthesis" \in CallSet(req[r])
          /\ ~req[r].failed ) =>
            req[r].response = Response(LlmText(req[r].chain_out.val))

FixedErrors == {MsgUnavailable, MsgEmptyQuery, MsgInternal}
FixedApologies == {MsgNoResults, MsgStructure, MsgPlan, MsgUnable, MsgRouterError}

\* C5: every request ends in a formatted answer or in one of the fixed
\* apology/error strings, whatever the downstream calls did; no exception
\* reaches the caller, and no request makes more than four downstream calls
\* before it ends.
C5_NoRawException ==
    \A r \in ReqIds :
        /\ Len(req[r].calls) <= 4
        /\ req[r].pc = "done" =>
            /\ req[r].response.kind \in {"response", "error"}
            /\ req[r].response.kind = "error" =>
                    /\ req[r].response.code \in {400, 500}
                    /\ req[r].response.text.kind = "fixed"
                    /\ req[r].response.text.text \in FixedErrors
            /\ req[r].response.kind = "response" =>
                    /\ req[r].response.code = 200
                    /\ \/ req[r].response.text.kind \in {"llm", "list", "sentence"}
                       \/ req[r].response.text \in FixedApologies

\* C5 witness: a request whose downstream call failed has ended in the fixed
\* internal-error response.
C5_Witness ==
    \E r \in ReqIds :
        /\ req[r].pc = "done"
        /\ req[r].failed
        /\ req[r].branch = "portfolio_summary"
        /\ req[r].response = ErrorResponse(500, MsgInternal)

(***************************************************************************)
(* Properties of the data-query engine (under SpecEngine).                 *)
(***************************************************************************)
\* The request went through the extraction of `path`, the chain returned a
\* text, and the executor has returned.
EngineDone(q, path) == q.pc = "done" /\ q.path = path /\ q.chain_out.ok

IsObjectText(text) == text.kind = "json" /\ text.val.t = "object"

\* The object a request's extraction text parses to.
Extracted(q) == q.chain_out.val.val.o

Has(o, key) == key \in DOMAIN o /\ o[key].t # "null"
NamesColumn(o, key) == Has(o, key) /\ o[key].t = "str" /\ o[key].s \in Columns
NamesNoColumn(o, key) ==
    Has(o, key) /\ o[key].t = "str" /\ o[key].s # <<>> /\ o[key].s \notin Columns

RequiredKeys(path) ==
    IF path = "simple_filter" THEN {"column_to_return"}
    ELSE {"groupby_col", "agg_col", "agg_func"}

Apology(path) == IF path = "simple_filter" THEN MsgStructure ELSE MsgPlan

\* The text does not parse, or parses to a value without a required field.
Malformed(path, text) ==
    \/ text.kind # "json"
    \/ text.val.t # "object"
    \/ \E k \in RequiredKeys(path) : k \notin DOMAIN text.val.o

\* C4 (the claim as stated): an extraction text that does not parse as JSON,
\* or parses to a value lacking a required field, yields the structure apology
\* on the simple_filter path and the plan apology on the complex_analysis path.
C4_MalformedYieldsApology ==
    \A r \in ReqIds : \A path \in {"simple_filter", "complex_analysis"} :
        (EngineDone(req[r], path) /\ Malformed(path, req[r].chain_out.val)) =>
            req[r].response = Response(Apology(path))

\* A FilterSpec: column_to_return names a column, column_to_filter is null or
\* names a column, filter_value is null or a string.
IsFilterSpec(o) ==
    /\ NamesColumn(o, "column_to_return")
    /\ Has(o, "column_to_filter") => NamesColumn(o, "column_to_filter")
    /\ Has(o, "filter_value") => o["filter_value"].t = "str"

FilterGiven(o) == Has(o, "column_to_filter") /\ Has(o, "filter_value")

\* The rows a FilterSpec selects: those whose filter column holds the
\* lower-cased filter value (a number is no string), or all of them.
ExpectedRows(table, o) ==
    IF FilterGiven(o)
    THEN {i \in 1..Len(table) :
            /\ ~IsNumericCol(o["column_to_filter"].s)
            /\ Cell(table[i], o["column_to_filter"].s) = Lower(o["filter_value"].s)}
    ELSE 1..Len(table)

\* The column_to_return cells of the selected rows, in row order.
ExpectedSeries(table, o) ==
    LET rows == ExpectedRows(table, o)
    IN  [k \in 1..Cardinality(rows) |->
            Cell(table[CHOOSE i \in rows : Cardinality({j \in rows : j < i}) = k - 1],
                 o["column_to_return"].s)]

SeqSet(q) == {q[i] : i \in 1..Len(q)}

\* C6: for a FilterSpec with both filter fields non-null the selected values
\* are the column_to_return cells of exactly the rows whose column_to_filter
\* equals the lower-cased filter_value; with either filter field null they are
\* the column_to_return cells of all rows.  The answer lists one line per
\* distinct selected value.
C6_FilterSelection ==
    \A r \in ReqIds :
        ( /\ EngineDone(req[r], "simple_filter")
          /\ IsObjectText(req[r].chain_out.val)
          /\ IsFilterSpec(Extracted(req[r])) ) =>
            LET expected == ExpectedSeries(df, Extracted(req[r]))
            IN  /\ ResultSeries(df, Extracted(req[r])) = Ok(expected)
                /\ req[r].response.code = 200
                /\ IF expected = <<>> THEN req[r].response.text = MsgNoResults
                   ELSE /\ req[r].response.text.kind = "list"
                        /\ Len(req[r].response.text.lines) = Cardinality(SeqSet(expected))

\* C6 witness: a filter on type with the value "Workshop" (capitalised) has
\* selected some rows of the table and not others.
C6_Witness ==
    \E r \in ReqIds :
        /\ EngineDone(req[r], "simple_filter")
        /\ IsObjectText(req[r].chain_out.val)
        /\ IsFilterSpec(Extracted(req[r]))
        /\ FilterGiven(Extracted(req[r]))
        /\ Extracted(req[r])["filter_value"].s = <<"W","o","r","k","s","h","o","p">>
        /\ ExpectedRows(df, Extracted(req[r])) \notin {{}, 1..Len(df)}
        /\ req[r].response.text.kind = "list"

\* C7: for a non-empty selection the answer is the header "Here are the
\* results:" and one line per distinct selected value; the lines are numbered
\* 1, 2, ... and the value with k smaller selected values stands, title-cased,
\* on line k + 1 (ascending order, no value twice).
C7_FilterFormatting ==
    \A r \in ReqIds :
        ( /\ EngineDone(req[r], "simple_filter")
          /\ IsObjectText(req[r].chain_out.val)
          /\ IsFilterSpec(Extracted(req[r]))
          /\ ExpectedRows(df, Extracted(req[r])) # {} ) =>
            LET col == Extracted(req[r])["column_to_return"].s
                S == SeqSet(ExpectedSeries(df, Extracted(req[r])))
                out == req[r].response.text
            IN  /\ out.kind = "list"
                /\ out.header = "Here are the results:"
                /\ Len(out.lines) = Cardinality(S)
                /\ \A i \in 1..Len(out.lines) : out.lines[i].num = i
                /\ \A v \in S :
                     out.lines[Cardinality({w \in S : CellLess(col, w, v)}) + 1].text
                        = Title(CellStr(col, v))

ExampleFilter ==
    [column_to_filter |-> JStr(c_type), filter_value |-> JStr(s_workshop),
     column_to_return |-> JStr(c_name)]

\* C7 witness: the worked example (alice/workshop, bob/seminar, filter
\* type = workshop, return name) has answered "Here are the results:\n1. Alice".
C7_Witness ==
    \E r \in ReqIds :
        /\ df = LoadTable(ExampleDocument)
        /\ EngineDone(req[r], "simple_filter")
        /\ req[r].chain_out.val = JsonText(JObject(ExampleFilter))
        /\ req[r].response =
              Response([kind |-> "list", header |-> "Here are the results:",
                        lines |-> <<[num |-> 1, text |-> <<"A","l","i","c","e">>]>>])

\* A plan that ranks groups: real columns, sum or count, a boolean direction
\* (or none) and an integer top_n (or none).
IsRankingPlan(o) ==
    /\ NamesColumn(o, "groupby_col")
    /\ NamesColumn(o, "agg_col")
    /\ Has(o, "agg_func")
    /\ o["agg_func"].t = "str" /\ o["agg_func"].s \in {f_sum, f_count}
    /\ "sort_ascending" \in DOMAIN o => o["sort_ascending"].t = "bool"
    /\ "top_n" \in DOMAIN o => o["top_n"].t = "int"

\* The distinct values of the grouping column.
Groups(table, g) == {Cell(table[i], g) : i \in 1..Len(table)}

\* How many groups a plan keeps: the first top_n (10 when absent), or all but
\* the last -top_n when top_n is negative.
KeptGroups(table, o) ==
    LET n == IF "top_n" \in DOMAIN o THEN o["top_n"].n ELSE 10
        m == Cardinality(Groups(table, o["groupby_col"].s))
    IN  IF n >= 0 THEN (IF n < m THEN n ELSE m)
        ELSE (IF m + n > 0 THEN m + n ELSE 0)

\* C8: whenever the computed result is empty -- a filter no row matches, or a
\* ranking cut down to no group -- the answer is exactly "No results found for
\* that query.", on both paths.
C8_EmptyResult ==
    \A r \in ReqIds :
        /\ ( /\ EngineDone(req[r], "simple_filter")
             /\ IsObjectText(req[r].chain_out.val)
             /\ IsFilterSpec(Extracted(req[r]))
             /\ ExpectedRows(df, Extracted(req[r])) = {} ) =>
                req[r].response = Response(MsgNoResults)
        /\ ( /\ EngineDone(req[r], "complex_analysis")
             /\ IsObjectText(req[r].chain_out.val)
             /\ IsRankingPlan(Extracted(req[r]))
             /\ KeptGroups(df, Extracted(req[r])) = 0 ) =>
                req[r].response = Response(MsgNoResults)

\* C8 witness: a filter on an existing column that no row matches has been
\* answered with the no-results sentence.
C8_Witness ==
    \E r \in ReqIds :
        /\ EngineDone(req[r], "simple_filter")
        /\ IsObjectText(req[r].chain_out.val)
        /\ IsFilterSpec(Extracted(req[r]))
        /\ FilterGiven(Extracted(req[r]))
        /\ ExpectedRows(df, Extracted(req[r])) = {}
        /\ req[r].response = Response(MsgNoResults)

\* C9 (the claim as stated): a filter object whose column_to_return is absent
\* or null, or whose column_to_filter or column_to_return names a column that
\* does not exist, is answered with the structure apology.
C9_InvalidColumnsApologise ==
    \A r \in ReqIds :
        ( /\ EngineDone(req[r], "simple_filter")
          /\ IsObjectText(req[r].chain_out.val)
          /\ \/ ~Has(Extracted(req[r]), "column_to_return")
             \/ NamesNoColumn(Extracted(req[r]), "column_to_filter")
             \/ NamesNoColumn(Extracted(req[r]), "column_to_return") ) =>
            req[r].response = Response(MsgStructure)

\* C9 (amended): an absent or null column_to_return raises the validation
\* error before any column is looked up and is answered with the structure
\* apology; so is a column_to_return naming no column when filter_value is
\* null or a string, and a column_to_filter naming no column when filter_value
\* is non-null.
C9_Validation ==
    \A r \in ReqIds :
        ( /\ EngineDone(req[r], "simple_filter")
          /\ IsObjectText(req[r].chain_out.val) ) =>
            LET o == Extracted(req[r])
            IN  /\ ~Has(o, "column_to_return") =>
                    /\ StructuredBody(df, req[r].chain_out.val) = Raise("ValueError")
                    /\ req[r].response = Response(MsgStructure)
                /\ ( /\ NamesNoColumn(o, "column_to_return")
                     /\ Has(o, "filter_value") => o["filter_value"].t = "str" ) =>
                    req[r].response = Response(MsgStructure)
                /\ ( /\ NamesNoColumn(o, "column_to_filter")
                     /\ Has(o, "filter_value") ) =>
                    req[r].response = Response(MsgStructure)

\* C9 witness: a filter object without column_to_return, whose filter column
\* does not exist and whose filter value is given, got the structure apology.
C9_Witness ==
    \E r \in ReqIds :
        /\ EngineDone(req[r], "simple_filter")
        /\ IsObjectText(req[r].chain_out.val)
        /\ ~Has(Extracted(req[r]), "column_to_return")
        /\ NamesNoColumn(Extracted(req[r]), "column_to_filter")
        /\ Has(Extracted(req[r]), "filter_value")
        /\ req[r].response = Response(MsgStructure)

\* A sum plan: a ranking plan summing a numeric column, top_n not negative.
IsSumPlan(o) ==
    /\ IsRankingPlan(o)
    /\ o["agg_func"].s = f_sum
    /\ IsNumericCol(o["agg_col"].s)
    /\ "top_n" \in DOMAIN o => o["top_n"].n >= 0

RECURSIVE RowSum(_, _, _, _, _)
\* The sum of column a over the first n rows of the table whose column g is key.
RowSum(table, g, key, a, n) ==
    IF n = 0 THEN 0
    ELSE RowSum(table, g, key, a, n - 1)
         + (IF Cell(table[n], g) = key THEN Cell(table[n], a) ELSE 0)

\* C10: for a sum plan the answer lists distinct keys of groupby_col,
\* title-cased and numbered from 1, at most top_n of them (10 when top_n is
\* absent), in order of the keys' summed agg_col -- descending unless
\* sort_ascending is true -- and no omitted key ranks before a listed one; so
\* top_n = 1, descending, lists a key with the highest sum.
C10_SumRanking ==
    \A r \in ReqIds :
        ( /\ EngineDone(req[r], "complex_analysis")
          /\ IsObjectText(req[r].chain_out.val)
          /\ IsSumPlan(Extracted(req[r]))
          /\ KeptGroups(df, Extracted(req[r])) > 0 ) =>
            LET o == Extracted(req[r])
                g == o["groupby_col"].s
                keys == Groups(df, g)
                asc == "sort_ascending" \in DOMAIN o /\ o["sort_ascending"].b
                Total(k) == RowSum(df, g, k, o["agg_col"].s, Len(df))
                Before(x, y) == IF asc THEN Total(x) <= Total(y) ELSE Total(x) >= Total(y)
                out == req[r].response.text
            IN  /\ req[r].response.code = 200
                /\ out.kind = "list"
                /\ out.header = "Here are the results:"
                /\ Len(out.lines) = KeptGroups(df, o)
                /\ \A i \in 1..Len(out.lines) :
                     /\ out.lines[i].num = i
                     /\ \E k \in keys : out.lines[i].text = Title(CellStr(g, k))
                /\ LET KeyAt(i) == CHOOSE k \in keys : out.lines[i].text = Title(CellStr(g, k))
                       listed == {KeyAt(i) : i \in 1..Len(out.lines)}
                   IN  /\ Cardinality(listed) = Len(out.lines)
                       /\ \A i, j \in 1..Len(out.lines) :
                            i < j => Before(KeyAt(i), KeyAt(j))
                       /\ \A k \in keys \ listed : \A x \in listed : Before(x, k)

\* C10 witness: a sum over eleven groups with neither top_n nor sort_ascending
\* has been answered with ten lines.
C10_Witness ==
    \E r \in ReqIds :
        /\ EngineDone(req[r], "complex_analysis")
        /\ IsObjectText(req[r].chain_out.val)
        /\ IsSumPlan(Extracted(req[r]))
        /\ DOMAIN Extracted(req[r]) = {"groupby_col", "agg_col", "agg_func"}
        /\ Cardinality(Groups(df, Extracted(req[r])["groupby_col"].s)) = 11
        /\ req[r].response.text.kind = "list"
        /\ Len(req[r].response.text.lines) = 10

\* A count plan: groupby_col names a column, agg_func is count, the direction
\* is a boolean (or absent) and top_n an integer (or absent); agg_col is
\* whatever the plan carries.
IsCountPlan(o) ==
    /\ NamesColumn(o, "groupby_col")
    /\ Has(o, "agg_func")
    /\ o["agg_func"].t = "str" /\ o["agg_func"].s = f_count
    /\ "sort_ascending" \in DOMAIN o => o["sort_ascending"].t = "bool"
    /\ "top_n" \in DOMAIN o => o["top_n"].t = "int"

\* The number of rows of the table whose column g holds key.
RowCount(table, g, key) ==
    Cardinality({i \in 1..Len(table) : Cell(table[i], g) = key})

\* The same plan carrying another agg_col.
WithAggCol(o, a) == Merge([agg_col |-> a], o)

\* C11 (the claim as stated): for a count plan the answer ranks the keys of
\* groupby_col by the number of rows of each group, and it is the answer the
\* plan gets with any other agg_col, a null, missing or non-existent one
\* included.
C11_CountIgnoresAggCol ==
    \A r \in ReqIds :
        ( /\ EngineDone(req[r], "complex_analysis")
          /\ IsObjectText(req[r].chain_out.val)
          /\ IsCountPlan(Extracted(req[r])) ) =>
            LET o == Extracted(req[r])
                g == o["groupby_col"].s
                asc == "sort_ascending" \in DOMAIN o /\ o["sort_ascending"].b
                out == req[r].response.text
                KeyAt(i) == CHOOSE k \in Groups(df, g) :
                                out.lines[i].text = Title(CellStr(g, k))
            IN  /\ req[r].response =
                      Response(ExecuteAnalyticalQuery(df,
                          Ok(JsonText(JObject(WithAggCol(o, JStr(c_name))))), tie_rev).val)
                /\ out.kind \in {"list", "fixed"}
                /\ out.kind = "fixed" => out = MsgNoResults
                /\ out.kind = "list" =>
                     \A i, j \in 1..Len(out.lines) : i < j =>
                        IF asc THEN RowCount(df, g, KeyAt(i)) <= RowCount(df, g, KeyAt(j))
                               ELSE RowCount(df, g, KeyAt(i)) >= RowCount(df, g, KeyAt(j))

IsIdxMax(o) == Has(o, "agg_func") /\ o["agg_func"].t = "str" /\ o["agg_func"].s = f_idxmax

\* C12 (the claim as stated): every plan with agg_func = idxmax is answered
\* with the sentence "The result is: <Key>".
C12_IdxMaxAlwaysSentence ==
    \A r \in ReqIds :
        ( /\ EngineDone(req[r], "complex_analysis")
          /\ IsObjectText(req[r].chain_out.val)
          /\ IsIdxMax(Extracted(req[r])) ) =>
            /\ req[r].response.code = 200
            /\ req[r].response.text.kind = "sentence"

\* The plan without sort_ascending and top_n.
WithoutRanking(o) == [k \in DOMAIN o \ {"sort_ascending", "top_n"} |-> o[k]]

\* C12 (amended): a plan with agg_func = idxmax whose groupby_col names a
\* column and whose agg_col names a numeric column is answered with the
\* sentence "The result is: <Key>", Key the title-cased key of groupby_col
\* with the largest summed agg_col; the answer is the one the plan gets without
\* sort_ascending and top_n, and it is no numbered list.
C12_IdxMaxSentence ==
    \A r \in ReqIds :
        ( /\ EngineDone(req[r], "complex_analysis")
          /\ IsObjectText(req[r].chain_out.val)
          /\ IsIdxMax(Extracted(req[r]))
          /\ NamesColumn(Extracted(req[r]), "groupby_col")
          /\ NamesColumn(Extracted(req[r]), "agg_col")
          /\ IsNumericCol(Extracted(req[r])["agg_col"].s) ) =>
            LET o == Extracted(req[r])
                g == o["groupby_col"].s
                Total(k) == RowSum(df, g, k, o["agg_col"].s, Len(df))
                out == req[r].response.text
            IN  /\ req[r].response.code = 200
                /\ out.kind = "sentence"
                /\ out.prefix = "The result is: "
                /\ \E k \in Groups(df, g) :
                     /\ out.text = Title(CellStr(g, k))
                     /\ \A x \in Groups(df, g) : Total(x) <= Total(k)
                /\ req[r].response =
                      Response(ExecuteAnalyticalQuery(df,
                          Ok(JsonText(JObject(WithoutRanking(o)))), tie_rev).val)

\* C12 witness: an idxmax plan carrying sort_ascending = true and a top_n,
\* over groups with different sums, has been answered with a sentence.
C12_Witness ==
    \E r \in ReqIds :
        /\ EngineDone(req[r], "complex_analysis")
        /\ IsObjectText(req[r].chain_out.val)
        /\ IsIdxMax(Extracted(req[r]))
        /\ NamesColumn(Extracted(req[r]), "groupby_col")
        /\ Extracted(req[r])["agg_col"] = JStr(c_credit_awarded)
        /\ Extracted(req[r])["groupby_col"] = JStr(c_name)
        /\ "top_n" \in DOMAIN Extracted(req[r])
        /\ "sort_ascending" \in DOMAIN Extracted(req[r])
        /\ Extracted(req[r])["sort_ascending"] = JBool(TRUE)
        /\ \E x, y \in Groups(df, c_name) :
              RowSum(df, c_name, x, c_credit_awarded, Len(df))
                 < RowSum(df, c_name, y, c_credit_awarded, Len(df))
        /\ req[r].response.text.kind = "sentence"

\* agg_func is present and is none of sum, count, idxmax.
IsUnsupportedFunc(o) ==
    /\ "agg_func" \in DOMAIN o
    /\ ~(o["agg_func"].t = "str" /\ o["agg_func"].s \in {f_sum, f_count, f_idxmax})

\* C13: a plan with existing groupby_col and agg_col whose agg_func is none of
\* sum, count, idxmax raises the handled ValueError and is answered, with
\* status 200, by the plan apology "Sorry, I had trouble creating a plan for
\* that analytical query."
C13_UnsupportedAggregation ==
    \A r \in ReqIds :
        ( /\ EngineDone(req[r], "complex_analysis")
          /\ IsObjectText(req[r].chain_out.val)
          /\ NamesColumn(Extracted(req[r]), "groupby_col")
          /\ NamesColumn(Extracted(req[r]), "agg_col")
          /\ IsUnsupportedFunc(Extracted(req[r])) ) =>
            /\ AnalyticalBody(df, req[r].chain_out.val, tie_rev) = Raise("ValueError")
            /\ req[r].response = Response(MsgPlan)

\* C13 witness: a plan asking for the mean of credit_awarded per name has been
\* answered with the plan apology.
C13_Witness ==
    \E r \in ReqIds :
        /\ EngineDone(req[r], "complex_analysis")
        /\ IsObjectText(req[r].chain_out.val)
        /\ NamesColumn(Extracted(req[r]), "groupby_col")
        /\ NamesColumn(Extracted(req[r]), "agg_col")
        /\ "agg_func" \in DOMAIN Extracted(req[r])
        /\ Extracted(req[r])["agg_func"] = JStr(f_mean)
        /\ req[r].response = Response(MsgPlan)

(***************************************************************************)
(* Properties of failures and of the order of calls (under Spec).          *)
(***************************************************************************)
\* The request is over and one of its downstream calls failed.
FailedDone(q) == q.pc = "done" /\ q.failed

LastCall(q) == q.calls[Len(q.calls)]

\* C14 (the claim as stated): whenever a language-model or retriever call of a
\* request fails, the caller receives the generic "internal error" message.
C14_FailureIsInternalError ==
    \A r \in ReqIds :
        FailedDone(req[r]) => req[r].response = ErrorResponse(500, MsgInternal)

\* C14 (amended): whenever a downstream call of a request fails the caller
\* receives a fixed failure message and no answer: the internal-error message
\* (status 500) for the top-level router, the RAG chain and the conversation
\* chain; "Sorry, I encountered an error while processing your query." for the
\* sub-router and the filter extraction; "Sorry, I was unable to process that
\* data query." for the plan extraction (both as status 200 response texts).
C14_FailureMessage ==
    \A r \in ReqIds :
        FailedDone(req[r]) =>
            req[r].response =
                IF LastCall(req[r]) \in {"sub_router", "filter_extraction"}
                THEN Response(MsgRouterError)
                ELSE IF LastCall(req[r]) = "plan_extraction"
                THEN Response(MsgUnable)
                ELSE ErrorResponse(500, MsgInternal)

\* C14 witness: the sub-router call of a request failed and the request was
\* answered with the engine's own error sentence.
C14_Witness ==
    \E r \in ReqIds :
        /\ FailedDone(req[r])
        /\ LastCall(req[r]) = "sub_router"
        /\ req[r].response = Response(MsgRouterError)

\* The component a routed request is served by.
ComponentFor(branch) ==
    IF branch = "portfolio_summary" THEN rag_chain
    ELSE IF branch = "general_query" THEN data_query_engine
    ELSE general_chain

\* The request needed a component that startup left as None: the router, or
\* the component of the branch the router chose.
NeedsMissing(q) ==
    \/ router_chain = "None"
    \/ q.branch # "none" /\ ComponentFor(q.branch) = "None"

\* C15 (the claim as stated): a request that needs a component which failed to
\* initialize is refused with the unavailability report, and is never
\* dispatched to that component.
C15_RefusesUninitialized ==
    \A r \in ReqIds :
        (req[r].pc = "done" /\ NeedsMissing(req[r])) =>
            req[r].response = ErrorResponse(500, MsgUnavailable)

\* The text holds the marker as a contiguous run of characters.
Contains(text, marker) ==
    \E i \in 1..(Len(text) - Len(marker) + 1) :
        SubSeq(text, i, i + Len(marker) - 1) = marker

\* C16: once the sub-router has answered, the request is on the simple_filter
\* path if and only if the answer contains `simple_filter`, and on the
\* complex_analysis path for every other answer; only the extraction chain of
\* that path is invoked, and the request is answered as an ordinary response.
C16_SubRouting ==
    \A r \in ReqIds :
        req[r].path # "none" =>
            /\ req[r].path =
                  IF Contains(req[r].query_text, simple_filter)
                  THEN "simple_filter" ELSE "complex_analysis"
            /\ "filter_extraction" \in CallSet(req[r]) => req[r].path = "simple_filter"
            /\ "plan_extraction" \in CallSet(req[r]) => req[r].path = "complex_analysis"
            /\ req[r].pc = "done" =>
                  /\ req[r].response.code = 200
                  /\ req[r].response.kind = "response"

\* C16 witness: an answer naming neither label ("simple") was taken down the
\* complex_analysis path and the plan extraction was invoked.
C16_Witness ==
    \E r \in ReqIds :
        /\ req[r].query_text = <<"s","i","m","p","l","e">>
        /\ req[r].path = "complex_analysis"
        /\ "plan_extraction" \in CallSet(req[r])
        /\ req[r].pc = "done"

(***************************************************************************)
(* Properties of repeated calls (under SpecTwice).                         *)
(***************************************************************************)
\* Two calls got the same answers from the language model: the same
\* sub-router outcome and the same extraction outcome.
SameModelAnswers(a, b) ==
    /\ a.user_query = b.user_query
    /\ a.query_text = b.query_text
    /\ a.calls = b.calls
    /\ a.failed = b.failed
    /\ a.chain_out = b.chain_out

StudentNames == {<<"A","l","i","c","e">>, <<"b","o","b">>}

\* The question names this student and no other.
NamesOnly(question, name) ==
    /\ question.t = "str"
    /\ Contains(Lower(question.s), Lower(name))
    /\ \A other \in StudentNames \ {name} : ~Contains(Lower(question.s), Lower(other))

\* C18 (the claim as stated): for a question naming one student and no other,
\* the context passed to synthesis holds only retrieved documents whose content
\* mentions that name, and at most K of them.
C18_ContextMentionsName ==
    \A r \in ReqIds : \A name \in StudentNames :
        ( /\ req[r].pc \in {"rag_answer", "done"}
          /\ "retriever" \in CallSet(req[r])
          /\ NamesOnly(req[r].user_query, name) ) =>
            /\ Len(req[r].context) <= TOP_K
            /\ \A i \in 1..Len(req[r].context) :
                 Contains(Lower(req[r].context[i].page_content), Lower(name))

(***************************************************************************)
(* Properties of the order of calls within one request (under Spec).       *)
(***************************************************************************)
\* One pass of query_data without failure: a step from a to b of the pass
\* Classifying -> (FilterExtracting -> FilterExecuting |
\* PlanExtracting -> PlanExecuting) -> returned.
PassStep(a, b) ==
    \/ /\ a.pc = "classify" /\ b.pc \in {"filter_extract", "plan_extract"}
       /\ b.calls = Append(a.calls, "sub_router")
       /\ a.calls \in {<<>>, <<"router">>}
    \/ /\ a.pc = "filter_extract" /\ b.pc = "filter_exec"
       /\ b.calls = Append(a.calls, "filter_extraction")
       /\ "plan_extraction" \notin CallSet(b)
       /\ b.chain_out.ok
    \/ /\ a.pc = "plan_extract" /\ b.pc = "plan_exec"
       /\ b.calls = Append(a.calls, "plan_extraction")
       /\ "filter_extraction" \notin CallSet(b)
       /\ b.chain_out.ok
    \/ /\ a.pc \in {"filter_exec", "plan_exec"} /\ b.pc = "done"
       /\ b.calls = a.calls
       /\ b.response.kind = "response"

\* The classification call or the extraction call failed and query_data
\* returned at once.
FailureExit(a, b) ==
    /\ a.pc \in {"classify", "filter_extract", "plan_extract"}
    /\ b.pc = "done"
    /\ Len(b.calls) = Len(a.calls) + 1
    /\ b.failed

\* C19 (the claim as stated): every step of a query_data call is a step of
\* the one pass Classifying -> (FilterExtracting -> FilterExecuting |
\* PlanExtracting -> PlanExecuting) -> returned, so every call invokes exactly
\* one extraction chain and executes its result.
C19_OnePassAlways ==
    [][\A r \in ReqIds :
          req[r].pc \in EnginePcs => PassStep(req[r], req'[r])]_vars

\* C19 (amended): every step of a query_data call is a step of that pass, or
\* the immediate return after a failed classification or extraction call:
\* classification precedes extraction, at most one extraction chain is invoked
\* and never both, and execution starts only after its extraction returned.
C19_OnePass ==
    [][\A r \in ReqIds :
          req[r].pc \in EnginePcs =>
              PassStep(req[r], req'[r]) \/ FailureExit(req[r], req'[r])]_vars

\* C19 witness: a call has gone through classification, filter extraction and
\* filter execution, and returned.
C19_Witness ==
    \E r \in ReqIds :
        /\ req[r].pc = "done"
        /\ req[r].path = "simple_filter"
        /\ ~req[r].failed
        /\ req[r].calls = <<"router", "sub_router", "filter_extraction">>
        /\ req[r].response.kind = "response"

ChainNames ==
    {"router", "rewrite", "retriever", "synthesis", "general",
     "sub_router", "filter_extraction", "plan_extraction"}

FailureOutcomes ==
    {ErrorResponse(500, MsgInternal), Response(MsgRouterError), Response(MsgUnable)}

\* C20: within one request every step that makes a downstream call invokes a
\* chain the request has not invoked before; once a call has failed the
\* request is over with a failure outcome, and its only further step is the
\* start of the next request.
C20_NoRetry ==
    [][\A r \in ReqIds :
          /\ (req'[r].calls # req[r].calls /\ req'[r].calls # <<>>) =>
                /\ ~req[r].failed
                /\ \E c \in ChainNames \ CallSet(req[r]) :
                      req'[r].calls = Append(req[r].calls, c)
          /\ req'[r].failed =>
                /\ req'[r].pc = "done"
                /\ req'[r].response \in FailureOutcomes
          /\ req[r].failed => req'[r] = NewRequest]_vars

\* C20 witness: the rewrite call of a RAG request failed; the request is over
\* with the internal-error response and neither the retriever nor the
\* synthesis was invoked.
C20_Witness ==
    \E r \in ReqIds :
        /\ req[r].pc = "done"
        /\ req[r].failed
        /\ req[r].calls = <<"router", "rewrite">>
        /\ req[r].response = ErrorResponse(500, MsgInternal)

(***************************************************************************)
(* Properties of the table (under SpecEngine).                             *)
(***************************************************************************)
NormalizedColumns == {c_name, c_department, c_type, c_status, c_approved_by}

UpperCaseLetters == {UpperChars[k] : k \in 1..Len(UpperChars)}

HasNoUpperCase(s) == \A k \in 1..Len(s) : s[k] \notin UpperCaseLetters

\* The same letters in lower case, in upper case, capitalised, and with the
\* case of every letter swapped.
CaseVariants(s) ==
    {Lower(s), [k \in 1..Len(s) |-> UpperChar(s[k])], Title(s),
     [k \in 1..Len(s) |-> IF IsUpperChar(s[k]) THEN LowerChar(s[k]) ELSE UpperChar(s[k])]}

\* The same filter object with another filter_value.
WithFilterValue(o, v) == [o EXCEPT !["filter_value"] = JStr(v)]

\* C21: every value of name, department, type, status and approved_by in the
\* loaded table is lower-case, and a simple_filter on one of these columns
\* selects the same rows and gives the same output for every filter_value
\* that differs from the supplied one only in letter case.
C21_CaseNormalization ==
    /\ \A i \in 1..Len(df) : \A col \in NormalizedColumns :
          HasNoUpperCase(Cell(df[i], col))
    /\ \A r \in ReqIds :
        ( /\ EngineDone(req[r], "simple_filter")
          /\ IsObjectText(req[r].chain_out.val)
          /\ IsFilterSpec(Extracted(req[r]))
          /\ FilterGiven(Extracted(req[r]))
          /\ Extracted(req[r])["column_to_filter"].s \in NormalizedColumns ) =>
            LET o == Extracted(req[r])
                col == o["column_to_filter"].s
            IN  \A v \in CaseVariants(o["filter_value"].s) :
                  /\ SelectRows(df, col, FilterValue(JStr(v)))
                        = SelectRows(df, col, FilterValue(o["filter_value"]))
                  /\ req[r].response =
                        Response(ExecuteStructuredQuery(df,
                            Ok(JsonText(JObject(WithFilterValue(o, v))))).val)

\* C21 witness: a filter on name with the value "ALICE" has returned the
\* titles of two students whose names were stored as "Alice" and "ALICE".
C21_Witness ==
    \E r \in ReqIds :
        /\ EngineDone(req[r], "simple_filter")
        /\ IsObjectText(req[r].chain_out.val)
        /\ IsFilterSpec(Extracted(req[r]))
        /\ FilterGiven(Extracted(req[r]))
        /\ Extracted(req[r])["column_to_filter"] = JStr(c_name)
        /\ Extracted(req[r])["filter_value"] = JStr(<<"A","L","I","C","E">>)
        /\ Extracted(req[r])["column_to_return"] = JStr(c_title)
        /\ Cardinality(ExpectedRows(df, Extracted(req[r]))) = 2
        /\ req[r].response.text.kind = "list"

\* The tables DataQueryEngine.__init__ can build from the source documents.
LoadedTables == {LoadTable(raw) : raw \in RawDocuments \cup {BigDocument}}

\* C22: no step of a query -- classification, extraction, execution on
\* success or on any error outcome, the return, the next call -- changes the
\* table: before and after every step it is the table built at startup, with
\* the same rows in the same order and the same cells.
C22_TableImmutable ==
    [][/\ df' = df
       /\ df \in LoadedTables
       /\ Len(df') = Len(df)]_vars

\* C22 witness: a filter that selects some rows and not others has been
\* answered, and the table is still a loaded table with all its rows.
C22_Witness ==
    \E r \in ReqIds :
        /\ EngineDone(req[r], "simple_filter")
        /\ IsObjectText(req[r].chain_out.val)
        /\ IsFilterSpec(Extracted(req[r]))
        /\ Cardinality(ExpectedRows(df, Extracted(req[r]))) \in 1..(Len(df) - 1)
        /\ req[r].response.text.kind = "list"
        /\ df \in LoadedTables

(***************************************************************************)
(* Properties of concurrent requests (under SpecConcurrent).               *)
(***************************************************************************)
\* The call whose failure ended the request, or "none".
FailedCall(q) == IF q.failed THEN LastCall(q) ELSE "none"

\* What a request gets when it is served alone, from start to end in one go,
\* with the language-model and retriever answers this request got: its
\* routing decision and its response.
ServedAlone(q) ==
    IF router_chain = "None"
    THEN [branch |-> "none", response |-> ErrorResponse(500, MsgUnavailable)]
    ELSE IF ~Truthy(q.user_query)
    THEN [branch |-> "none", response |-> ErrorResponse(400, MsgEmptyQuery)]
    ELSE IF FailedCall(q) = "router"
    THEN [branch |-> "none", response |-> ErrorResponse(500, MsgInternal)]
    ELSE
    LET b == Branch(Strip(q.router_text))
    IN  [branch |-> b,
         response |->
            IF b = "portfolio_summary"
            THEN IF rag_chain = "None" \/ q.failed THEN ErrorResponse(500, MsgInternal)
                 ELSE HandleRequest(PortfolioText(RagChainResult(q.chain_out.val)))
            ELSE IF b = "general_conversation"
            THEN IF q.failed THEN ErrorResponse(500, MsgInternal)
                 ELSE Response(LlmText(q.chain_out.val))
            ELSE IF FailedCall(q) = "sub_router" THEN Response(MsgRouterError)
            ELSE IF QueryBranch(Strip(q.query_text)) = "simple_filter"
            THEN HandleRequest(HandleQueryData(ExecuteStructuredQuery(df, q.chain_out)))
            ELSE HandleRequest(HandleQueryData(
                    ExecuteAnalyticalQuery(df, q.chain_out, tie_rev)))]

\* C23: whatever the interleaving of the steps of the requests being served,
\* the routing decision and the response of every finished request are those
\* it gets when served alone with the same language-model answers.
C23_NoInterference ==
    \A r \in DOMAIN req :
        req[r].pc = "done" =>
            /\ req[r].branch = ServedAlone(req[r]).branch
            /\ req[r].response = ServedAlone(req[r]).response

\* C23 witness: two requests are being served at once: one has been answered
\* with a ranking while the other is between its extraction and its execution.
C23_Witness ==
    \E r1, r2 \in DOMAIN req :
        /\ r1 # r2
        /\ req[r1].pc = "done"
        /\ req[r1].path = "complex_analysis"
        /\ req[r1].response.kind = "response"
        /\ req[r1].response.text.kind = "list"
        /\ req[r2].pc \in {"filter_exec", "plan_exec"}

(***************************************************************************)
(* Totality of query_data (under SpecEngine).                              *)
(***************************************************************************)
FourApologies == {MsgStructure, MsgPlan, MsgUnable, MsgRouterError}

\* C24: whatever the sub-router answered, whatever the extraction returned
\* (a JSON object, JSON of another type, no JSON) and whichever call failed,
\* query_data has returned a string: a "Here are the results:" list, a
\* "The result is: " sentence, "No results found for that query." or one of
\* the four fixed apologies; nothing was raised to the caller.
C24_QueryDataTotal ==
    \A r \in ReqIds :
        req[r].pc = "done" =>
            /\ req[r].response.kind = "response"
            /\ req[r].response.code = 200
            /\ \/ req[r].response.text \in FourApologies \cup {MsgNoResults}
               \/ /\ req[r].response.text.kind = "list"
                  /\ req[r].response.text.header = "Here are the results:"
                  /\ req[r].response.text.lines # <<>>
               \/ /\ req[r].response.text.kind = "sentence"
                  /\ req[r].response.text.prefix = "The result is: "

\* C24 witness: a filter extraction that returned JSON of another type (no
\* object) has been answered by the apology of query_data's own handler.
C24_Witness ==
    \E r \in ReqIds :
        /\ EngineDone(req[r], "simple_filter")
        /\ req[r].chain_out.val.kind = "json"
        /\ req[r].chain_out.val.val.t # "object"
        /\ req[r].response = Response(MsgRouterError)
====
